---- MODULE Spec2Model ----
(***************************************************************************)
(* Model of src/source/src/vector.h: RawMemory<T> (an owning block of raw  *)
(* cells) and Vector<T> (a live prefix of size_ cells inside a RawMemory). *)
(*                                                                         *)
(* A buffer is a sequence of cells, one per slot of the allocated block.   *)
(* A cell is Raw (no object lives there) or holds the value of the live    *)
(* object.  C++ index i of a buffer is element i + 1 of the sequence.      *)
(* Every element-level step of the code (construct, copy, move, assign,    *)
(* destroy) is applied to the cells one by one, in the order the code and  *)
(* the standard algorithms it calls apply them, and each construction and  *)
(* destruction is counted.                                                 *)
(***************************************************************************)
EXTENDS Integers, Sequences, FiniteSets, TLC

\* ------------------------------------------------------------------ bounds
MaxCap == 3          \* most cells the Vector objects may own together
MaxVal == 1          \* element values are 0..MaxVal
MaxFail == 2         \* latest element operation of a call that may throw
MaxConstructs == 3   \* no new call starts once this many objects were built

\* --------------------------------------------------------------- constants
Raw == 0 - 1         \* a cell holding no object
Empty == 0           \* the value-initialized value, also the moved-from value
NoFail == 0 - 2      \* fuel of a call in which no element operation throws
size_factor == 2     \* raw memory increase factor
SizeBits == 4        \* width of size_t: sizes and capacities are 0..2^4 - 1

Values == Empty..MaxVal
Args == Values
Oom == 0 - 3         \* fault of a call whose allocation fails
Fuels == {NoFail} \cup (0..MaxFail)
\* what goes wrong in a call: nothing, its allocation, or one of the element
\* operations it performs
Faults == {Oom} \cup Fuels
FuelOf(fault) == IF fault = Oom THEN NoFail ELSE fault

\* ----------------------------------------------------------- element types
\* The template parameter T, described by the traits the code dispatches on
\* and by what its special members do:
\*   nothrow_move        std::is_nothrow_move_constructible_v<T>
\*   copy_constructible  std::is_copy_constructible_v<T>
\*   throws              constructors from arguments, value-initialization,
\*                       copy construction and copy assignment may throw
\*   counted             T counts its constructions and destructions
\*   move_keeps          a move leaves the source's value in place (as for a
\*                       trivially copyable T); otherwise it leaves Empty
IntT ==
  [name |-> "int", counted |-> FALSE, nothrow_move |-> TRUE, copy_constructible |-> TRUE,
   throws |-> FALSE, move_keeps |-> TRUE]
StrT ==
  [name |-> "string", counted |-> FALSE, nothrow_move |-> TRUE, copy_constructible |-> TRUE,
   throws |-> TRUE, move_keeps |-> FALSE]
CounterT ==
  [name |-> "counter", counted |-> TRUE, nothrow_move |-> FALSE, copy_constructible |-> TRUE,
   throws |-> TRUE, move_keeps |-> FALSE]
MoveOnlyT ==
  [name |-> "moveonly", counted |-> FALSE, nothrow_move |-> FALSE, copy_constructible |-> FALSE,
   throws |-> TRUE, move_keeps |-> FALSE]
ElemTypes == {IntT, StrT, CounterT, MoveOnlyT}

VARIABLES
  T,           \* the element type of this instantiation
  vec,         \* vec[i]: the Vector object in slot i (alive, data_, size_)
  constructs,  \* constructions counted by T so far (0 if T does not count)
  destructs,   \* destructions counted by T so far (0 if T does not count)
  call         \* the call being followed statement by statement, or Idle

vars == <<T, vec, constructs, destructs, call>>

Slots == 1..2

\* ------------------------------------------------------------ fuel
\* A call is given a fuel: the number of element operations that are able to
\* throw and that succeed before one throws (NoFail: none throws).
CanThrowCtor == T.throws
CanThrowMove == ~T.nothrow_move

\* of n operations in a row, how many succeed
Done(can, fuel, n) ==
  IF can /\ fuel # NoFail /\ fuel < n THEN fuel ELSE n

Burn(can, fuel, n) ==
  IF ~can \/ fuel = NoFail THEN fuel
  ELSE IF fuel >= n THEN fuel - n ELSE 0

\* ------------------------------------------------------------ RawMemory
Allocate(n) == [i \in 1..n |-> Raw]

RawMemory(capacity) == [buffer_ |-> Allocate(capacity), capacity_ |-> capacity]

NullMemory == [buffer_ |-> <<>>, capacity_ |-> 0]

\* cells of a block still holding an object when the block is deallocated
LiveIn(buffer) == Cardinality({i \in 1..Len(buffer) : buffer[i] # Raw})

\* ------------------------------------------------------ <memory> algorithms
\* Each returns the destination and source buffers afterwards, the number of
\* constructions and destructions it performed, the fuel left, and whether
\* it threw.  src and dst are different buffers.

\* std::destroy_n(b + first, n)
DestroyN(b, first, n) ==
  [i \in 1..Len(b) |-> IF i - 1 >= first /\ i - 1 < first + n THEN Raw ELSE b[i]]

\* std::uninitialized_copy_n(src + first, n, dst + dfirst): on a throw the
\* cells it has built are destroyed again
UninitializedCopyN(src, first, n, dst, dfirst, fuel) ==
  LET k == Done(CanThrowCtor, fuel, n) IN
  [dst |-> IF k < n THEN dst
           ELSE [i \in 1..Len(dst) |->
                   IF i - 1 >= dfirst /\ i - 1 < dfirst + n
                   THEN src[first + (i - 1 - dfirst) + 1] ELSE dst[i]],
   src |-> src,
   cons |-> k,
   des |-> IF k < n THEN k ELSE 0,
   fuel |-> Burn(CanThrowCtor, fuel, n),
   threw |-> k < n]

\* std::uninitialized_move_n(src + first, n, dst + dfirst): as above, but the
\* sources already moved from stay moved-from
UninitializedMoveN(src, first, n, dst, dfirst, fuel) ==
  LET k == Done(CanThrowMove, fuel, n) IN
  [dst |-> IF k < n THEN dst
           ELSE [i \in 1..Len(dst) |->
                   IF i - 1 >= dfirst /\ i - 1 < dfirst + n
                   THEN src[first + (i - 1 - dfirst) + 1] ELSE dst[i]],
   src |-> [i \in 1..Len(src) |->
              IF i - 1 >= first /\ i - 1 < first + k /\ ~T.move_keeps
              THEN Empty ELSE src[i]],
   cons |-> k,
   des |-> IF k < n THEN k ELSE 0,
   fuel |-> Burn(CanThrowMove, fuel, n),
   threw |-> k < n]

\* std::uninitialized_value_construct_n(b + first, n)
UninitializedValueConstructN(b, first, n, fuel) ==
  LET k == Done(CanThrowCtor, fuel, n) IN
  [dst |-> IF k < n THEN b
           ELSE [i \in 1..Len(b) |->
                   IF i - 1 >= first /\ i - 1 < first + n THEN Empty ELSE b[i]],
   cons |-> k,
   des |-> IF k < n THEN k ELSE 0,
   fuel |-> Burn(CanThrowCtor, fuel, n),
   threw |-> k < n]

\* std::copy(src + first, src + first + n, dst + dfirst): copy-assigns cell
\* by cell, front to back; the cells assigned before a throw keep the new
\* value
Copy(src, first, n, dst, dfirst, fuel) ==
  LET k == Done(CanThrowCtor, fuel, n) IN
  [dst |-> [i \in 1..Len(dst) |->
              IF i - 1 >= dfirst /\ i - 1 < dfirst + k
              THEN src[first + (i - 1 - dfirst) + 1] ELSE dst[i]],
   fuel |-> Burn(CanThrowCtor, fuel, n),
   threw |-> k < n]

\* one move assignment b[to] = std::move(b[from]) inside one buffer
MoveAssignCell(b, from, to) ==
  [i \in 1..Len(b) |->
     IF i - 1 = to THEN b[from + 1]
     ELSE IF i - 1 = from /\ ~T.move_keeps THEN Empty
     ELSE b[i]]

\* std::move_backward(b + first, b + last, b + d_last) with at most `left`
\* assignments succeeding: *(--d_last) = std::move(*(--last)) until
\* first == last
RECURSIVE MoveBackwardSteps(_, _, _, _, _)
MoveBackwardSteps(b, first, lst, d_last, left) ==
  IF first = lst \/ left = 0 THEN b
  ELSE MoveBackwardSteps(MoveAssignCell(b, lst - 1, d_last - 1),
                         first, lst - 1, d_last - 1, left - 1)

MoveBackward(b, first, lst, d_last, fuel) ==
  LET n == lst - first
      k == Done(CanThrowMove, fuel, n) IN
  [dst |-> MoveBackwardSteps(b, first, lst, d_last, k),
   fuel |-> Burn(CanThrowMove, fuel, n),
   threw |-> k < n]

\* std::move(b + first, b + last, b + d_first) with at most `left`
\* assignments succeeding: *d_first++ = std::move(*first++)
RECURSIVE MoveSteps(_, _, _, _, _)
MoveSteps(b, first, lst, d_first, left) ==
  IF first >= lst \/ left = 0 THEN b
  ELSE MoveSteps(MoveAssignCell(b, first, d_first),
                 first + 1, lst, d_first + 1, left - 1)

Move(b, first, lst, d_first, fuel) ==
  LET n == IF lst > first THEN lst - first ELSE 0
      k == Done(CanThrowMove, fuel, n) IN
  [dst |-> MoveSteps(b, first, lst, d_first, k),
   fuel |-> Burn(CanThrowMove, fuel, n),
   threw |-> k < n]

\* ------------------------------------------------------------------ Vector
\* What a member function leaves behind: the Vector afterwards, the number
\* of constructions and destructions it performed, the exception it ended
\* with ("none", "bad_alloc", "element"; "abort" when the process was
\* terminated instead), the fuel left, the index of the
\* cell its returned pointer or reference designates (NoRet for void), and
\* the number of live cells in the blocks it deallocated.
NoRet == 0 - 1

Res(v, cons, des, exc, fuel, ret, freed) ==
  [v |-> v, cons |-> cons, des |-> des, exc |-> exc, fuel |-> fuel,
   ret |-> ret, freed |-> freed]

\* a slot holding no Vector object (before construction, after destruction)
NoVector == [alive |-> FALSE, data_ |-> NullMemory, size_ |-> 0]

\* Vector() = default
VectorDefault == [alive |-> TRUE, data_ |-> NullMemory, size_ |-> 0]

Capacity(v) == v.data_.capacity_

Size(v) == v.size_

\* the values of the cells [0, size_), front to back
Contents(v) == SubSeq(v.data_.buffer_, 1, v.size_)

\* new (buffer + index) T(...)
ConstructAt(buffer, index, value) == [buffer EXCEPT ![index + 1] = value]

\* whether constructing the new element from the call's argument can throw:
\* how = "move" builds it with T's move constructor (Insert(pos, T&&),
\* PushBack(T&&)), "copy" with the copy constructor, "args" with another
\* constructor
HowKinds == {"copy", "move", "args"}

CanThrowNew(how) == IF how = "move" THEN CanThrowMove ELSE CanThrowCtor

\* explicit Vector(size_t size)
VectorSized(size, fuel, oom) ==
  IF oom /\ size # 0 THEN Res(NoVector, 0, 0, "bad_alloc", fuel, NoRet, 0)
  ELSE
    LET data == RawMemory(size)
        c == UninitializedValueConstructN(data.buffer_, 0, size, fuel) IN
    IF c.threw
    THEN Res(NoVector, c.cons, c.des, "element", c.fuel, NoRet, LiveIn(c.dst))
    ELSE Res([alive |-> TRUE,
              data_ |-> [data EXCEPT !.buffer_ = c.dst],
              size_ |-> size],
             c.cons, c.des, "none", c.fuel, NoRet, 0)

\* a copy constructor that builds the copies one by one and leaves the ones
\* it has built when a later one throws
VectorCopyNoRollback(other, fuel, oom) ==
  IF oom /\ other.size_ # 0
  THEN Res(NoVector, 0, 0, "bad_alloc", fuel, NoRet, 0)
  ELSE
    LET data == RawMemory(other.size_)
        c == UninitializedCopyN(other.data_.buffer_, 0, other.size_,
                                data.buffer_, 0, fuel) IN
    IF c.threw
    THEN Res(NoVector, c.cons, 0, "element", c.fuel, NoRet, c.cons)
    ELSE Res([alive |-> TRUE,
              data_ |-> [data EXCEPT !.buffer_ = c.dst],
              size_ |-> other.size_],
             c.cons, c.des, "none", c.fuel, NoRet, 0)

\* Vector(const Vector& other)
VectorCopy(other, fuel, oom) ==
  IF oom /\ other.size_ # 0
  THEN Res(NoVector, 0, 0, "bad_alloc", fuel, NoRet, 0)
  ELSE
    LET data == RawMemory(other.size_)
        c == UninitializedCopyN(other.data_.buffer_, 0, other.size_,
                                data.buffer_, 0, fuel) IN
    IF c.threw
    THEN Res(NoVector, c.cons, c.des, "element", c.fuel, NoRet, LiveIn(c.dst))
    ELSE Res([alive |-> TRUE,
              data_ |-> [data EXCEPT !.buffer_ = c.dst],
              size_ |-> other.size_],
             c.cons, c.des, "none", c.fuel, NoRet, 0)

\* ~Vector(): destroy_n(data_, size_), then ~RawMemory deallocates
VectorDestroy(v) ==
  LET b == DestroyN(v.data_.buffer_, 0, v.size_) IN
  Res(NoVector, 0, v.size_, "none", NoFail, NoRet, LiveIn(b))

\* a Reserve that moves the elements whatever the traits of T say
ReserveByMove(v, new_capacity, fuel, oom) ==
  IF new_capacity <= Capacity(v) THEN Res(v, 0, 0, "none", fuel, NoRet, 0)
  ELSE IF oom THEN Res(v, 0, 0, "bad_alloc", fuel, NoRet, 0)
  ELSE
    LET new_data == RawMemory(new_capacity)
        r == UninitializedMoveN(v.data_.buffer_, 0, v.size_,
                                new_data.buffer_, 0, fuel) IN
    IF r.threw
    THEN Res([v EXCEPT !.data_.buffer_ = r.src],
             r.cons, r.des, "element", r.fuel, NoRet, LiveIn(r.dst))
    ELSE
      LET old == DestroyN(r.src, 0, v.size_) IN
      Res([v EXCEPT !.data_ = [new_data EXCEPT !.buffer_ = r.dst]],
          r.cons, r.des + v.size_, "none", r.fuel, NoRet, LiveIn(old))

\* a Reserve that rounds the request up to the growth schedule
ReserveAtLeastDouble(v, new_capacity, fuel, oom) ==
  IF new_capacity <= Capacity(v) THEN Res(v, 0, 0, "none", fuel, NoRet, 0)
  ELSE IF oom THEN Res(v, 0, 0, "bad_alloc", fuel, NoRet, 0)
  ELSE
    LET new_data == RawMemory(IF new_capacity < size_factor * Capacity(v)
                              THEN size_factor * Capacity(v)
                              ELSE new_capacity)
        r == IF T.nothrow_move \/ ~T.copy_constructible
             THEN UninitializedMoveN(v.data_.buffer_, 0, v.size_,
                                     new_data.buffer_, 0, fuel)
             ELSE UninitializedCopyN(v.data_.buffer_, 0, v.size_,
                                     new_data.buffer_, 0, fuel) IN
    IF r.threw
    THEN Res([v EXCEPT !.data_.buffer_ = r.src],
             r.cons, r.des, "element", r.fuel, NoRet, LiveIn(r.dst))
    ELSE
      LET old == DestroyN(r.src, 0, v.size_) IN
      Res([v EXCEPT !.data_ = [new_data EXCEPT !.buffer_ = r.dst]],
          r.cons, r.des + v.size_, "none", r.fuel, NoRet, LiveIn(old))

\* void Reserve(size_t new_capacity)
Reserve(v, new_capacity, fuel, oom) ==
  IF new_capacity <= Capacity(v) THEN Res(v, 0, 0, "none", fuel, NoRet, 0)
  ELSE IF oom THEN Res(v, 0, 0, "bad_alloc", fuel, NoRet, 0)
  ELSE
    LET new_data == RawMemory(new_capacity)
        r == IF T.nothrow_move \/ ~T.copy_constructible
             THEN UninitializedMoveN(v.data_.buffer_, 0, v.size_,
                                     new_data.buffer_, 0, fuel)
             ELSE UninitializedCopyN(v.data_.buffer_, 0, v.size_,
                                     new_data.buffer_, 0, fuel) IN
    IF r.threw
    THEN Res([v EXCEPT !.data_.buffer_ = r.src],
             r.cons, r.des, "element", r.fuel, NoRet, LiveIn(r.dst))
    ELSE
      LET old == DestroyN(r.src, 0, v.size_) IN
      Res([v EXCEPT !.data_ = [new_data EXCEPT !.buffer_ = r.dst]],
          r.cons, r.des + v.size_, "none", r.fuel, NoRet, LiveIn(old))

\* void Resize(size_t new_size)
Resize(v, new_size, fuel, oom) ==
  IF new_size > v.size_
  THEN
    LET r == Reserve(v, new_size, fuel, oom) IN
    IF r.exc # "none" THEN r
    ELSE
      LET c == UninitializedValueConstructN(r.v.data_.buffer_, v.size_,
                                            new_size - v.size_, r.fuel) IN
      IF c.threw
      THEN Res([r.v EXCEPT !.data_.buffer_ = c.dst],
               r.cons + c.cons, r.des + c.des, "element", c.fuel, NoRet,
               r.freed)
      ELSE Res([r.v EXCEPT !.data_.buffer_ = c.dst, !.size_ = new_size],
               r.cons + c.cons, r.des + c.des, "none", c.fuel, NoRet,
               r.freed)
  ELSE
    Res([v EXCEPT !.data_.buffer_ =
                     DestroyN(v.data_.buffer_, new_size, v.size_ - new_size),
                  !.size_ = new_size],
        0, v.size_ - new_size, "none", fuel, NoRet, 0)

\* a PopBack that gives up the last cell without destroying its object
PopBackNoDestroy(v) ==
  IF v.size_ > 0
  THEN Res([v EXCEPT !.size_ = v.size_ - 1], 0, 0, "none", NoFail, NoRet, 0)
  ELSE Res(v, 0, 0, "none", NoFail, NoRet, 0)

\* void PopBack()
PopBack(v) ==
  IF v.size_ > 0
  THEN Res([v EXCEPT !.data_.buffer_ = DestroyN(v.data_.buffer_, v.size_ - 1, 1),
                     !.size_ = v.size_ - 1],
           0, 1, "none", NoFail, NoRet, 0)
  ELSE Res(v, 0, 0, "none", NoFail, NoRet, 0)

\* a growth by one cell instead of a doubling
NewCapacityPlusOne(size) == size + 1

\* size_t arithmetic is modulo 2^SizeBits
SizeRange == 2 ^ SizeBits

\* capacity of the block allocated at a growth point:
\* size_ == 0 ? 1 : size_ * size_factor, computed in size_t
NewCapacity(size) ==
  IF size = 0 THEN 1 ELSE (size * size_factor) % SizeRange

\* whether the block new_data has room for size + 1 cells.  When the
\* doubling wrapped it has not: new_data + size_ then fails
\* assert(offset <= capacity_) in RawMemory::operator+, and where the
\* assertion passes or is compiled out the constructions write outside the
\* block (through a null pointer when the capacity wrapped to 0); either way
\* the process is terminated.
HoldsOneMore(new_data, size) == size < new_data.capacity_

\* T& EmplaceBack(Args&&... args): value is what T(args...) constructs
EmplaceBack(v, value, how, fuel, oom) ==
  IF v.size_ = Capacity(v)
  THEN
    IF oom THEN Res(v, 0, 0, "bad_alloc", fuel, NoRet, 0)
    ELSE
      LET new_data == RawMemory(NewCapacity(v.size_)) IN
      IF ~HoldsOneMore(new_data, v.size_)
      THEN Res(v, 0, 0, "abort", fuel, NoRet, 0)
      ELSE IF Done(CanThrowNew(how), fuel, 1) = 0
      THEN Res(v, 0, 0, "element", 0, NoRet, LiveIn(new_data.buffer_))
      ELSE
        LET built == ConstructAt(new_data.buffer_, v.size_, value)
            fuel1 == Burn(CanThrowNew(how), fuel, 1)
            moving == T.nothrow_move \/ ~T.copy_constructible
            r == IF moving
                 THEN UninitializedMoveN(v.data_.buffer_, 0, v.size_,
                                         built, 0, fuel1)
                 ELSE UninitializedCopyN(v.data_.buffer_, 0, v.size_,
                                         built, 0, fuel1) IN
        IF r.threw
        THEN
          IF moving
          THEN Res([v EXCEPT !.data_.buffer_ = r.src],
                   1 + r.cons, r.des, "element", r.fuel, NoRet, LiveIn(r.dst))
          ELSE Res([v EXCEPT !.data_.buffer_ = r.src],
                   1 + r.cons, r.des + 1, "element", r.fuel, NoRet,
                   LiveIn(DestroyN(r.dst, v.size_, 1)))
        ELSE
          LET old == DestroyN(r.src, 0, v.size_) IN
          Res([v EXCEPT !.data_ = [new_data EXCEPT !.buffer_ = r.dst],
                        !.size_ = v.size_ + 1],
              1 + r.cons, r.des + v.size_, "none", r.fuel, v.size_,
              LiveIn(old))
  ELSE
    IF Done(CanThrowNew(how), fuel, 1) = 0
    THEN Res(v, 0, 0, "element", 0, NoRet, 0)
    ELSE Res([v EXCEPT !.data_.buffer_ =
                         ConstructAt(v.data_.buffer_, v.size_, value),
                       !.size_ = v.size_ + 1],
             1, 0, "none", Burn(CanThrowNew(how), fuel, 1), v.size_, 0)

\* void PushBack(Type&& value)
PushBack(v, value, how, fuel, oom) == EmplaceBack(v, value, how, fuel, oom)

\* the reallocating path of Emplace (size_ == Capacity())
EmplaceRealloc(v, offset, value, how, fuel, oom) ==
  IF oom THEN Res(v, 0, 0, "bad_alloc", fuel, NoRet, 0)
  ELSE
    LET new_data == RawMemory(NewCapacity(v.size_)) IN
    IF ~HoldsOneMore(new_data, v.size_)
    THEN Res(v, 0, 0, "abort", fuel, NoRet, 0)
    ELSE IF Done(CanThrowNew(how), fuel, 1) = 0
    THEN Res(v, 0, 0, "element", 0, NoRet, LiveIn(new_data.buffer_))
    ELSE
      LET built == ConstructAt(new_data.buffer_, offset, value)
          fuel1 == Burn(CanThrowNew(how), fuel, 1)
          moving == T.nothrow_move \/ ~T.copy_constructible
          head == IF moving
                  THEN UninitializedMoveN(v.data_.buffer_, 0, offset,
                                          built, 0, fuel1)
                  ELSE UninitializedCopyN(v.data_.buffer_, 0, offset,
                                          built, 0, fuel1)
          tail == IF moving
                  THEN UninitializedMoveN(head.src, offset, v.size_ - offset,
                                          head.dst, offset + 1, head.fuel)
                  ELSE UninitializedCopyN(head.src, offset, v.size_ - offset,
                                          head.dst, offset + 1, head.fuel)
          r == IF head.threw THEN head
               ELSE [tail EXCEPT !.cons = head.cons + tail.cons,
                                 !.des = head.des + tail.des] IN
      IF r.threw
      THEN
        IF moving
        THEN Res([v EXCEPT !.data_.buffer_ = r.src],
                 1 + r.cons, r.des, "element", r.fuel, NoRet, LiveIn(r.dst))
        ELSE Res([v EXCEPT !.data_.buffer_ = r.src],
                 1 + r.cons, r.des + 1, "element", r.fuel, NoRet,
                 LiveIn(DestroyN(r.dst, offset, 1)))
      ELSE
        LET old == DestroyN(r.src, 0, v.size_) IN
        Res([v EXCEPT !.data_ = [new_data EXCEPT !.buffer_ = r.dst],
                      !.size_ = v.size_ + 1],
            1 + r.cons, r.des + v.size_, "none", r.fuel, offset, LiveIn(old))

\* the in-place path of Emplace (size_ < Capacity())
EmplaceInPlace(v, offset, value, how, fuel) ==
  LET b0 == v.data_.buffer_
      shifting == v.size_ # 0
      \* new (data_ + size_) T(std::move(*(end() - 1)))
      lastThrew == shifting /\ Done(CanThrowMove, fuel, 1) = 0
      b1 == IF shifting
            THEN [ConstructAt(b0, v.size_, b0[v.size_])
                    EXCEPT ![v.size_] = IF T.move_keeps THEN @ ELSE Empty]
            ELSE b0
      fuel1 == IF shifting THEN Burn(CanThrowMove, fuel, 1) ELSE fuel
      \* std::move_backward(begin() + offset, end(), end() + 1)
      m == IF shifting
           THEN MoveBackward(b1, offset, v.size_, v.size_ + 1, fuel1)
           ELSE [dst |-> b1, fuel |-> fuel1, threw |-> FALSE]
      \* std::destroy_at(begin() + offset)
      b2 == IF shifting THEN DestroyN(m.dst, offset, 1) ELSE m.dst
      cons0 == IF shifting THEN 1 ELSE 0
      des0 == IF shifting THEN 1 ELSE 0 IN
  IF lastThrew THEN Res(v, 0, 0, "element", 0, NoRet, 0)
  ELSE IF m.threw
  THEN Res([v EXCEPT !.data_.buffer_ = DestroyN(m.dst, v.size_, 1)],
           1, 1, "element", m.fuel, NoRet, 0)
  ELSE IF Done(CanThrowNew(how), m.fuel, 1) = 0
  THEN Res([v EXCEPT !.data_.buffer_ = b2],
           cons0, des0, "element", 0, NoRet, 0)
  ELSE Res([v EXCEPT !.data_.buffer_ = ConstructAt(b2, offset, value),
                     !.size_ = v.size_ + 1],
           cons0 + 1, des0, "none", Burn(CanThrowNew(how), m.fuel, 1),
           offset, 0)

\* T* Emplace(const T* pos, Args&&... args), offset = pos - begin()
Emplace(v, offset, value, how, fuel, oom) ==
  IF v.size_ = Capacity(v)
  THEN EmplaceRealloc(v, offset, value, how, fuel, oom)
  ELSE EmplaceInPlace(v, offset, value, how, fuel)

\* T* Insert(const T* pos, const T& value) and T* Insert(const T* pos,
\* T&& value)
Insert(v, offset, value, how, fuel, oom) ==
  Emplace(v, offset, value, how, fuel, oom)

\* v after the constructor of the new element has read its argument, the
\* element v[index] of v itself: a move constructor leaves that cell
\* moved-from
ArgumentRead(v, index, how) ==
  IF how = "move" /\ ~T.move_keeps
  THEN [v EXCEPT !.data_.buffer_[index + 1] = Empty]
  ELSE v

\* EmplaceBack(v[index]) and PushBack(v[index]): on both paths the new
\* element is constructed before any cell of v is touched, so it is built
\* from what v[index] holds at the call
EmplaceBackOfElement(v, index, how, fuel, oom) ==
  LET r == EmplaceBack(ArgumentRead(v, index, how),
                       v.data_.buffer_[index + 1], how, fuel, oom) IN
  IF r.cons = 0 THEN [r EXCEPT !.v = v] ELSE r

\* Emplace(pos, v[index]) and Insert(pos, v[index]) with every outcome.  On
\* the reallocating path the new element is constructed first.  On the
\* in-place path it is constructed last, from what the cell the argument
\* refers to holds after the shift and after destroy_at(begin() + offset):
\* a cell before offset still holds its element, a cell after offset holds
\* the element shifted into it, and the cell at offset holds a destroyed
\* object, whose bytes are still the old value for a trivially copyable T
\* and anything otherwise.
EmplaceOfElementOutcomes(v, offset, index, how, fuel, oom) ==
  IF v.size_ = Capacity(v)
  THEN
    LET r == Emplace(ArgumentRead(v, index, how), offset,
                     v.data_.buffer_[index + 1], how, fuel, oom) IN
    {IF r.cons = 0 THEN [r EXCEPT !.v = v] ELSE r}
  ELSE
    LET r == EmplaceInPlace(v, offset, Empty, how, fuel)
        reads == IF index # offset THEN {r.v.data_.buffer_[index + 1]}
                 ELSE IF T.move_keeps THEN {v.data_.buffer_[index + 1]}
                 ELSE Values IN
    IF r.exc # "none" THEN {r}
    ELSE {[r EXCEPT !.v =
             IF index = offset
             THEN [r.v EXCEPT !.data_.buffer_[offset + 1] = x]
             ELSE ArgumentRead([r.v EXCEPT !.data_.buffer_[offset + 1] = x],
                               index, how)] : x \in reads}

\* an Erase whose shift starts at pos itself, so that nothing moves
EraseShiftFromPos(v, shift, fuel) ==
  LET m == Move(v.data_.buffer_, shift, v.size_, shift, fuel) IN
  IF m.threw
  THEN Res([v EXCEPT !.data_.buffer_ = m.dst], 0, 0, "element", m.fuel,
           NoRet, 0)
  ELSE
    LET p == PopBack([v EXCEPT !.data_.buffer_ = m.dst]) IN
    Res(p.v, p.cons, p.des, "none", m.fuel, shift, 0)

\* T* Erase(const T* pos), shift = pos - begin()
Erase(v, shift, fuel) ==
  LET m == Move(v.data_.buffer_, shift + 1, v.size_, shift, fuel) IN
  IF m.threw
  THEN Res([v EXCEPT !.data_.buffer_ = m.dst], 0, 0, "element", m.fuel,
           NoRet, 0)
  ELSE
    LET p == PopBack([v EXCEPT !.data_.buffer_ = m.dst]) IN
    Res(p.v, p.cons, p.des, "none", m.fuel, shift, 0)

\* Erase(pos) with every outcome it can have.  With pos == end() the code
\* hands std::move the range [end() + 1, end()), which is no range: its loop
\* may run no iteration, after which PopBack destroys the last element and
\* the call returns (seen with std::string), or its block move of a
\* trivially copyable T overruns the block and the process dies (seen with
\* int).
EraseOutcomes(v, shift, fuel) ==
  IF shift < v.size_ THEN {Erase(v, shift, fuel)}
  ELSE {Erase(v, shift, fuel), Res(v, 0, 0, "abort", fuel, NoRet, 0)}

\* T& operator[](size_t index) noexcept, built with assertions:
\* assert(index < size_) here and assert(index < capacity_) in
\* RawMemory::operator[]
At(v, index) ==
  IF index < v.size_ /\ index < Capacity(v)
  THEN Res(v, 0, 0, "none", NoFail, index, 0)
  ELSE Res(v, 0, 0, "abort", NoFail, NoRet, 0)

\* a Swap that exchanges the sizes and forgets the blocks
SwapSizeOnly(v, other) ==
  <<[v EXCEPT !.size_ = other.size_], [other EXCEPT !.size_ = v.size_]>>

\* a Swap that exchanges the blocks and forgets the sizes
SwapDataOnly(v, other) ==
  <<[v EXCEPT !.data_ = other.data_], [other EXCEPT !.data_ = v.data_]>>

\* void Swap(Vector& other): the pair <<this, other>> afterwards
Swap(v, other) ==
  <<[v EXCEPT !.data_ = other.data_, !.size_ = other.size_],
    [other EXCEPT !.data_ = v.data_, !.size_ = v.size_]>>

\* Vector(Vector&& other) noexcept: the pair <<new Vector, other>>
VectorMove(other) == Swap(VectorDefault, other)

\* Vector& operator=(Vector&& rhs) noexcept: the pair <<this, rhs>>;
\* self is this == &rhs
MoveAssign(v, rhs, self) == IF ~self THEN Swap(v, rhs) ELSE <<v, rhs>>

\* a copy assignment that always takes the copy-and-swap branch
CopyAssignAlwaysSwap(v, rhs, self, fuel, oom) ==
  IF self THEN Res(v, 0, 0, "none", fuel, NoRet, 0)
  ELSE
    LET c == VectorCopy(rhs, fuel, oom) IN
    IF c.exc # "none"
    THEN Res(v, c.cons, c.des, c.exc, c.fuel, NoRet, c.freed)
    ELSE
      LET sw == Swap(v, c.v)
          d == VectorDestroy(sw[2]) IN
      Res(sw[1], c.cons, c.des + d.des, "none", c.fuel, NoRet,
          c.freed + d.freed)

\* Vector& operator=(const Vector& rhs); self is this == &rhs
CopyAssign(v, rhs, self, fuel, oom) ==
  IF self THEN Res(v, 0, 0, "none", fuel, NoRet, 0)
  ELSE IF rhs.size_ > Capacity(v)
  THEN
    \* Vector rhs_copy(rhs); Swap(rhs_copy); then rhs_copy, holding the
    \* former state of *this, is destroyed
    LET c == VectorCopy(rhs, fuel, oom) IN
    IF c.exc # "none"
    THEN Res(v, c.cons, c.des, c.exc, c.fuel, NoRet, c.freed)
    ELSE
      LET sw == Swap(v, c.v)
          d == VectorDestroy(sw[2]) IN
      Res(sw[1], c.cons, c.des + d.des, "none", c.fuel, NoRet,
          c.freed + d.freed)
  ELSE IF rhs.size_ < v.size_
  THEN
    LET a == Copy(rhs.data_.buffer_, 0, rhs.size_, v.data_.buffer_, 0, fuel) IN
    IF a.threw
    THEN Res([v EXCEPT !.data_.buffer_ = a.dst], 0, 0, "element", a.fuel,
             NoRet, 0)
    ELSE Res([v EXCEPT !.data_.buffer_ =
                         DestroyN(a.dst, rhs.size_, v.size_ - rhs.size_),
                       !.size_ = rhs.size_],
             0, v.size_ - rhs.size_, "none", a.fuel, NoRet, 0)
  ELSE
    LET a == Copy(rhs.data_.buffer_, 0, v.size_, v.data_.buffer_, 0, fuel) IN
    IF a.threw
    THEN Res([v EXCEPT !.data_.buffer_ = a.dst], 0, 0, "element", a.fuel,
             NoRet, 0)
    ELSE
      LET u == UninitializedCopyN(rhs.data_.buffer_, v.size_,
                                  rhs.size_ - v.size_, a.dst, v.size_,
                                  a.fuel) IN
      IF u.threw
      THEN Res([v EXCEPT !.data_.buffer_ = u.dst], u.cons, u.des, "element",
               u.fuel, NoRet, 0)
      ELSE Res([v EXCEPT !.data_.buffer_ = u.dst, !.size_ = rhs.size_],
               u.cons, u.des, "none", u.fuel, NoRet, 0)

\* ---------------------------------------------------------------- invariant
\* cells [0, size_) hold an object, cells [size_, capacity) hold none
LiveInvariant(v) ==
  /\ Len(v.data_.buffer_) = v.data_.capacity_
  /\ v.size_ <= Len(v.data_.buffer_)
  /\ \A i \in 1..Len(v.data_.buffer_) :
       (i <= v.size_) <=> (v.data_.buffer_[i] # Raw)

\* A member function may be called on a Vector object that exists and whose
\* cells are in the state its code assumes.  A call on a Vector with a dead
\* object inside [0, size_) or a live one outside reads, assigns or destroys
\* a dead object, or builds over a live one: undefined behaviour, after which
\* the run is not followed.
Callable(v) == v.alive /\ LiveInvariant(v)

\* ------------------------------------------------------------------ actions
\* no call is being followed statement by statement
Idle == [pc |-> "idle"]

Budget == constructs < MaxConstructs

\* the cells owned by the Vector objects of a state
Owned(vs) == Capacity(vs[1]) + Capacity(vs[2])

\* the effect of a call on the Vector in slot i alone; a call is followed
\* only while the cells owned afterwards stay within the bound or do not
\* grow in number, and nothing
\* follows a call that terminated the process
Apply(i, r) ==
  /\ r.exc # "abort"
  /\ vec' = [vec EXCEPT ![i] = r.v]
  /\ Owned(vec') <= MaxCap \/ Owned(vec') <= Owned(vec)
  /\ constructs' = IF T.counted THEN constructs + r.cons ELSE constructs
  /\ destructs' = IF T.counted THEN destructs + r.des ELSE destructs
  /\ UNCHANGED <<T, call>>

\* the effect of a noexcept call that exchanges state between slots i and j
ApplyPair(i, j, pair) ==
  /\ vec' = [vec EXCEPT ![i] = pair[1], ![j] = pair[2]]
  /\ UNCHANGED <<T, constructs, destructs, call>>

\* the faults a call on element type T can meet
FaultsOf(t) ==
  IF t.throws \/ ~t.nothrow_move THEN Faults ELSE {Oom, NoFail}

DoVectorDefault(i) ==
  /\ ~vec[i].alive
  /\ Apply(i, Res(VectorDefault, 0, 0, "none", NoFail, NoRet, 0))

DoVectorSized(i) ==
  /\ ~vec[i].alive /\ Budget
  /\ \E size \in 0..MaxCap, fault \in FaultsOf(T) :
       Apply(i, VectorSized(size, FuelOf(fault), fault = Oom))

DoVectorCopy(i) ==
  /\ ~vec[i].alive /\ Budget /\ T.copy_constructible
  /\ \E j \in Slots \ {i}, fault \in FaultsOf(T) :
       /\ Callable(vec[j])
       /\ Apply(i, VectorCopy(vec[j], FuelOf(fault), fault = Oom))

DoVectorMove(i) ==
  /\ ~vec[i].alive
  /\ \E j \in Slots \ {i} :
       /\ Callable(vec[j])
       /\ ApplyPair(i, j, VectorMove(vec[j]))

DoDestroy(i) ==
  /\ Callable(vec[i])
  /\ Apply(i, VectorDestroy(vec[i]))

DoCopyAssign(i) ==
  /\ Callable(vec[i]) /\ Budget /\ T.copy_constructible
  /\ \E j \in Slots, fault \in FaultsOf(T) :
       /\ Callable(vec[j])
       /\ Apply(i, CopyAssign(vec[i], vec[j], i = j, FuelOf(fault),
                              fault = Oom))

DoMoveAssign(i) ==
  /\ Callable(vec[i])
  /\ \E j \in Slots :
       /\ Callable(vec[j])
       /\ IF i = j
          THEN Apply(i, Res(MoveAssign(vec[i], vec[i], TRUE)[1], 0, 0, "none",
                            NoFail, NoRet, 0))
          ELSE ApplyPair(i, j, MoveAssign(vec[i], vec[j], FALSE))

DoSwap(i) ==
  /\ Callable(vec[i])
  /\ \E j \in Slots \ {i} :
       /\ Callable(vec[j])
       /\ ApplyPair(i, j, Swap(vec[i], vec[j]))

DoReserve(i) ==
  /\ Callable(vec[i]) /\ Budget
  /\ \E new_capacity \in 0..MaxCap, fault \in FaultsOf(T) :
       Apply(i, Reserve(vec[i], new_capacity, FuelOf(fault), fault = Oom))

DoResize(i) ==
  /\ Callable(vec[i]) /\ Budget
  /\ \E new_size \in 0..MaxCap, fault \in FaultsOf(T) :
       Apply(i, Resize(vec[i], new_size, FuelOf(fault), fault = Oom))

DoPushBack(i) ==
  /\ Callable(vec[i]) /\ Budget
  /\ \E value \in Args, how \in {"copy", "move"}, fault \in FaultsOf(T) :
       /\ how = "copy" => T.copy_constructible
       /\ Apply(i, PushBack(vec[i], value, how, FuelOf(fault), fault = Oom))

DoEmplaceBack(i) ==
  /\ Callable(vec[i]) /\ Budget
  /\ \E value \in Args, fault \in FaultsOf(T) :
       Apply(i, EmplaceBack(vec[i], value, "args", FuelOf(fault),
                            fault = Oom))

DoPopBack(i) ==
  /\ Callable(vec[i])
  /\ Apply(i, PopBack(vec[i]))

DoEmplace(i) ==
  /\ Callable(vec[i]) /\ Budget
  /\ \E offset \in 0..vec[i].size_, value \in Args, fault \in FaultsOf(T) :
       Apply(i, Emplace(vec[i], offset, value, "args", FuelOf(fault),
                        fault = Oom))

DoInsert(i) ==
  /\ Callable(vec[i]) /\ Budget
  /\ \E offset \in 0..vec[i].size_, value \in Args, how \in {"copy", "move"},
        fault \in FaultsOf(T) :
       /\ how = "copy" => T.copy_constructible
       /\ Apply(i, Insert(vec[i], offset, value, how, FuelOf(fault),
                          fault = Oom))

\* v.PushBack(v[index]) and v.PushBack(std::move(v[index]))
DoPushBackOfElement(i) ==
  /\ Callable(vec[i]) /\ Budget /\ vec[i].size_ > 0
  /\ \E index \in 0..(vec[i].size_ - 1), how \in {"copy", "move"},
        fault \in FaultsOf(T) :
       /\ how = "copy" => T.copy_constructible
       /\ Apply(i, EmplaceBackOfElement(vec[i], index, how, FuelOf(fault),
                                        fault = Oom))

\* v.Insert(pos, v[index]) and v.Insert(pos, std::move(v[index]))
DoInsertOfElement(i) ==
  /\ Callable(vec[i]) /\ Budget /\ vec[i].size_ > 0
  /\ \E offset \in 0..vec[i].size_, index \in 0..(vec[i].size_ - 1),
        how \in {"copy", "move"}, fault \in FaultsOf(T) :
       /\ how = "copy" => T.copy_constructible
       /\ \E r \in EmplaceOfElementOutcomes(vec[i], offset, index, how,
                                             FuelOf(fault), fault = Oom) :
            Apply(i, r)

DoErase(i) ==
  /\ Callable(vec[i])
  /\ \E shift \in 0..vec[i].size_, fault \in FaultsOf(T) \ {Oom} :
       \E r \in EraseOutcomes(vec[i], shift, fault) : Apply(i, r)

\* v[index] = value, the write through the reference operator[] returns
DoAt(i) ==
  /\ Callable(vec[i])
  /\ \E index \in 0..MaxCap, value \in Values :
       LET r == At(vec[i], index) IN
       /\ r.exc = "none"
       /\ Apply(i, [r EXCEPT !.v.data_.buffer_[r.ret + 1] = value])

Init ==
  /\ T \in ElemTypes
  /\ vec = [i \in Slots |-> IF i = 1 THEN VectorDefault ELSE NoVector]
  /\ constructs = 0
  /\ destructs = 0
  /\ call = Idle

Next ==
  \E i \in Slots :
    \/ DoVectorDefault(i)
    \/ DoVectorSized(i)
    \/ DoVectorCopy(i)
    \/ DoVectorMove(i)
    \/ DoDestroy(i)
    \/ DoCopyAssign(i)
    \/ DoMoveAssign(i)
    \/ DoSwap(i)
    \/ DoReserve(i)
    \/ DoResize(i)
    \/ DoPushBack(i)
    \/ DoEmplaceBack(i)
    \/ DoPopBack(i)
    \/ DoEmplace(i)
    \/ DoInsert(i)
    \/ DoErase(i)
    \/ DoAt(i)
    \/ DoPushBackOfElement(i)
    \/ DoInsertOfElement(i)

Spec == Init /\ [][Next]_vars

\* the ways T lets the caller hand over the new element
HowsOf(t) == IF t.copy_constructible THEN HowKinds ELSE {"move", "args"}

\* --------------------------------------------- at the end of size_t's range
\* The calls that add or remove one element, on a full Vector whose size is
\* half the range of size_t, so that doubling the capacity wraps to 0.
HalfRange == SizeRange \div 2

OverflowInit ==
  /\ T \in ElemTypes
  /\ constructs = 0
  /\ destructs = 0
  /\ call = Idle
  /\ \E b \in [1..HalfRange -> Values] :
       vec = <<[alive |-> TRUE,
                data_ |-> [buffer_ |-> b, capacity_ |-> HalfRange],
                size_ |-> HalfRange],
               NoVector>>

OverflowNext ==
  \/ DoPushBack(1)
  \/ DoEmplaceBack(1)
  \/ DoEmplace(1)
  \/ DoInsert(1)
  \/ DoPopBack(1)

OverflowSpec == OverflowInit /\ [][OverflowNext]_vars

\* ------------------------------------------------ a growing call by steps
\* The reallocating path of EmplaceBack (vector.h:217-251, 255) and of
\* Emplace (vector.h:266-310, 332) on the Vector in slot 1, one statement
\* per action.  call holds the call's arguments and locals: new_data, the
\* number k of cells relocated so far, whether the new element has been
\* built, the Vector as it was before the call, and what the call has
\* constructed, destroyed and deallocated so far.

\* the Vectors with size_ == Capacity()
FullVectors ==
  UNION {{[alive |-> TRUE,
           data_ |-> [buffer_ |-> b, capacity_ |-> n],
           size_ |-> n] : b \in [1..n -> Values]} : n \in 0..MaxCap}

\* the call fn(args) on v at its first statement
Start(v, fn, offset, value, how, fault) ==
  [pc |-> "allocate", fn |-> fn, offset |-> offset, value |-> value,
   how |-> how, fault |-> fault, fuel |-> FuelOf(fault),
   new_data |-> NullMemory, built |-> FALSE, k |-> 0, before |-> v,
   cons |-> 0, des |-> 0, exc |-> "none", freed |-> 0]

\* if constexpr (std::is_nothrow_move_constructible_v<T>
\*               || !std::is_copy_constructible_v<T>)
Moving == T.nothrow_move \/ ~T.copy_constructible

\* RawMemory<T> new_data(size_ == 0 ? 1 : size_ * size_factor)
AllocateNewData ==
  /\ call.pc = "allocate"
  /\ call' = IF call.fault = Oom
             THEN [call EXCEPT !.pc = "thrown", !.exc = "bad_alloc"]
             ELSE [call EXCEPT !.pc = "construct",
                               !.new_data = RawMemory(NewCapacity(vec[1].size_))]
  /\ UNCHANGED <<T, vec, constructs, destructs>>

\* result = new (new_data + offset) T(std::forward<Args>(args)...); when it
\* throws, new_data is deallocated on the way out
ConstructNew ==
  /\ call.pc = "construct"
  /\ call' = IF ~HoldsOneMore(call.new_data, vec[1].size_)
             THEN [call EXCEPT !.pc = "aborted", !.exc = "abort"]
             ELSE IF Done(CanThrowNew(call.how), call.fuel, 1) = 0
             THEN [call EXCEPT !.pc = "thrown", !.exc = "element", !.fuel = 0,
                               !.freed = LiveIn(call.new_data.buffer_),
                               !.new_data = NullMemory]
             ELSE [call EXCEPT !.pc = "relocate", !.built = TRUE,
                               !.new_data.buffer_ =
                                  ConstructAt(@, call.offset, call.value),
                               !.fuel = Burn(CanThrowNew(call.how), @, 1),
                               !.cons = @ + 1]
  /\ UNCHANGED <<T, vec, constructs, destructs>>

\* one construction of std::uninitialized_move_n / std::uninitialized_copy_n:
\* source cell k goes to cell k of new_data in the head [0, offset) and to
\* cell k + 1 in the tail.  When it throws, the algorithm destroys the cells
\* that this call of it has built, the handler of the copy branch destroys
\* the new element, and new_data is deallocated on the way out.
RelocateCell ==
  /\ call.pc = "relocate"
  /\ call.k < vec[1].size_
  /\ LET k == call.k
         inHead == k < call.offset
         d == IF inHead THEN k ELSE k + 1
         can == IF Moving THEN CanThrowMove ELSE CanThrowCtor
         dfirst == IF inHead THEN 0 ELSE call.offset + 1
         n == IF inHead THEN k ELSE k - call.offset
         rolled == DestroyN(call.new_data.buffer_, dfirst, n)
         handled == IF Moving THEN rolled ELSE DestroyN(rolled, call.offset, 1)
     IN
     IF Done(can, call.fuel, 1) = 0
     THEN /\ call' = [call EXCEPT !.pc = "thrown", !.exc = "element",
                                  !.fuel = 0,
                                  !.des = @ + n + (IF Moving THEN 0 ELSE 1),
                                  !.freed = LiveIn(handled),
                                  !.new_data = NullMemory]
          /\ UNCHANGED vec
     ELSE /\ call' = [call EXCEPT !.k = k + 1,
                                  !.new_data.buffer_ =
                                     ConstructAt(@, d, vec[1].data_.buffer_[k + 1]),
                                  !.fuel = Burn(can, @, 1),
                                  !.cons = @ + 1]
          /\ vec' = IF Moving /\ ~T.move_keeps
                    THEN [vec EXCEPT ![1].data_.buffer_[k + 1] = Empty]
                    ELSE vec
  /\ UNCHANGED <<T, constructs, destructs>>

\* a destroy_n of the originals that does not wait for the relocation
DestroyOriginalsEarly ==
  /\ call.pc = "relocate"
  /\ vec' = [vec EXCEPT ![1].data_.buffer_ = DestroyN(@, 0, vec[1].size_)]
  /\ call' = [call EXCEPT !.pc = "swap", !.des = @ + vec[1].size_]
  /\ UNCHANGED <<T, constructs, destructs>>

\* std::destroy_n(begin(), size_), reached when the relocation is complete
DestroyOriginals ==
  /\ call.pc = "relocate"
  /\ call.k = vec[1].size_
  /\ vec' = [vec EXCEPT ![1].data_.buffer_ = DestroyN(@, 0, vec[1].size_)]
  /\ call' = [call EXCEPT !.pc = "swap", !.des = @ + vec[1].size_]
  /\ UNCHANGED <<T, constructs, destructs>>

\* data_.Swap(new_data)
SwapData ==
  /\ call.pc = "swap"
  /\ vec' = [vec EXCEPT ![1].data_ = call.new_data]
  /\ call' = [call EXCEPT !.pc = "free", !.new_data = vec[1].data_]
  /\ UNCHANGED <<T, constructs, destructs>>

\* new_data goes out of scope: ~RawMemory deallocates the block it holds
FreeOld ==
  /\ call.pc = "free"
  /\ call' = [call EXCEPT !.pc = "increment",
                          !.freed = LiveIn(call.new_data.buffer_),
                          !.new_data = NullMemory]
  /\ UNCHANGED <<T, vec, constructs, destructs>>

\* ++size_
IncrementSize ==
  /\ call.pc = "increment"
  /\ vec' = [vec EXCEPT ![1].size_ = @ + 1]
  /\ call' = [call EXCEPT !.pc = "done"]
  /\ UNCHANGED <<T, constructs, destructs>>

\* a full Vector in slot 1 and a call of EmplaceBack or Emplace on it
StepInit ==
  /\ T \in ElemTypes
  /\ constructs = 0
  /\ destructs = 0
  /\ \E v \in FullVectors :
       /\ vec = <<v, NoVector>>
       /\ \E fn \in {"EmplaceBack", "Emplace"}, offset \in 0..v.size_,
             value \in Args, how \in HowsOf(T), fault \in FaultsOf(T) :
            /\ fn = "EmplaceBack" => offset = v.size_
            /\ call = Start(v, fn, offset, value, how, fault)

StepNext ==
  \/ AllocateNewData
  \/ ConstructNew
  \/ RelocateCell
  \/ DestroyOriginals
  \/ SwapData
  \/ FreeOld
  \/ IncrementSize

StepSpec == StepInit /\ [][StepNext]_vars

\* =================================================================== claims
Alive == {i \in Slots : vec[i].alive}

\* the Vector objects a member function may be called on
Usable == {i \in Slots : Callable(vec[i])}

\* the sequence s with x put before its element number k (counted from 0)
InsertAt(s, k, x) == SubSeq(s, 1, k) \o <<x>> \o SubSeq(s, k + 1, Len(s))

\* the sequence s without its element number k (counted from 0)
RemoveAt(s, k) == SubSeq(s, 1, k) \o SubSeq(s, k + 2, Len(s))

\* C1: after every operation, on normal and on exceptional exit, cells
\* [0, size) of every Vector are live and cells [size, capacity) are raw.
\* The in-place path of Emplace breaks it when the new element's constructor
\* throws after the shift.
C1_LiveInvariantOnEveryExit ==
  \A i \in Alive : LiveInvariant(vec[i])

\* C2: in every reachable state, 0 <= size <= capacity for every Vector.
C2_SizeWithinCapacity ==
  \A i \in Alive : 0 <= Size(vec[i]) /\ Size(vec[i]) <= Capacity(vec[i])

\* a Vector filled to its capacity next to an empty one with spare capacity
C2_Witness ==
  \E i \in Alive, j \in Alive :
    /\ Size(vec[i]) = 2 /\ Capacity(vec[i]) = 2
    /\ Size(vec[j]) = 0 /\ Capacity(vec[j]) = 1

\* C3: when an element constructor throws during Reserve, Resize,
\* EmplaceBack/PushBack or Emplace/Insert, the Vector has the same size,
\* capacity and element values as before the call.  Resize keeps the
\* capacity it reserved, and the in-place path of Emplace keeps the shift.
C3_StrongExceptionSafety ==
  \A i \in Usable, fuel \in Fuels \ {NoFail} :
    LET v == vec[i] IN
    /\ \A n \in 0..(MaxCap + 1) :
         /\ Reserve(v, n, fuel, FALSE).exc = "element"
              => Reserve(v, n, fuel, FALSE).v = v
         /\ Resize(v, n, fuel, FALSE).exc = "element"
              => Resize(v, n, fuel, FALSE).v = v
    /\ \A x \in Args, how \in HowsOf(T) :
         /\ EmplaceBack(v, x, how, fuel, FALSE).exc = "element"
              => EmplaceBack(v, x, how, fuel, FALSE).v = v
         /\ \A k \in 0..Size(v) :
              Emplace(v, k, x, how, fuel, FALSE).exc = "element"
                => Emplace(v, k, x, how, fuel, FALSE).v = v

\* C4: once every Vector has been destroyed, the constructions counted by
\* the element type equal the destructions it counted.  A copy that throws in
\* the tail of Emplace's reallocation leaves the copied prefix undestroyed.
C4_ConstructDestructBalance ==
  (Alive = {}) => constructs = destructs

\* C5: a successful Emplace(pos, x) with offset k leaves size + 1 elements,
\* e[0..k), x, e[k..size), and returns a pointer to index k.  On the in-place
\* path a T whose move empties its source loses the last element.
C5_EmplaceResult ==
  \A i \in Usable, x \in Args, how \in HowsOf(T) :
  \A k \in 0..Size(vec[i]) :
    LET v == vec[i]
        r == Emplace(v, k, x, how, NoFail, FALSE) IN
    /\ r.exc = "none"
    /\ Size(r.v) = Size(v) + 1
    /\ Contents(r.v) = InsertAt(Contents(v), k, x)
    /\ r.ret = k

\* C6: Erase(pos) with offset k < size leaves size - 1 elements,
\* e[0..k), e[k+1..size), in a buffer of the same capacity, destroys exactly
\* one object, the one in the old last cell, and returns a pointer to index
\* k: the element that followed the erased one, or end().
C6_EraseResult ==
  \A i \in Usable :
  \A k \in 0..(Size(vec[i]) - 1) :
    LET v == vec[i]
        r == Erase(v, k, NoFail) IN
    /\ r.exc = "none"
    /\ Size(r.v) = Size(v) - 1
    /\ Capacity(r.v) = Capacity(v)
    /\ Contents(r.v) = RemoveAt(Contents(v), k)
    /\ r.des = 1 /\ r.cons = 0
    /\ \A c \in 1..Capacity(v) :
         (r.v.data_.buffer_[c] = Raw) <=> (c >= Size(v))
    /\ r.ret = k
    /\ IF k < Size(v) - 1
       THEN Contents(r.v)[r.ret + 1] = Contents(v)[k + 2]
       ELSE r.ret = Size(r.v)

\* a Vector of a type whose move empties its source, holding three elements
\* that differ from their neighbours, whose middle element Erase removes
C6_Witness ==
  \E i \in Usable :
    /\ ~T.move_keeps
    /\ Contents(vec[i]) = <<1, 0, 1>>
    /\ Contents(Erase(vec[i], 1, NoFail).v) = <<1, 1>>

\* C7: Insert(end(), x) leaves the same size, capacity and elements as
\* PushBack(x).  On the in-place path Insert moves the last element out and
\* destroys the copy, so a T whose move empties its source loses it.
C7_InsertAtEndIsPushBack ==
  \A i \in Usable, x \in Args, how \in HowsOf(T) \ {"args"} :
    LET v == vec[i]
        a == Insert(v, Size(v), x, how, NoFail, FALSE)
        b == PushBack(v, x, how, NoFail, FALSE) IN
    /\ Size(a.v) = Size(b.v)
    /\ Capacity(a.v) = Capacity(b.v)
    /\ Contents(a.v) = Contents(b.v)
    /\ Contents(a.v) = Contents(v) \o <<x>>

\* C8: Insert(begin() + k, x) followed by Erase(begin() + k) leaves the size
\* and the elements as they were; only the capacity may have grown.
C8_InsertEraseRoundTrip ==
  \A i \in Usable, x \in Args, how \in HowsOf(T) \ {"args"} :
  \A k \in 0..Size(vec[i]) :
    LET v == vec[i]
        a == Insert(v, k, x, how, NoFail, FALSE)
        b == Erase(a.v, k, NoFail) IN
    /\ Size(b.v) = Size(v)
    /\ Contents(b.v) = Contents(v)
    /\ Capacity(b.v) >= Capacity(v)

\* the capacity the growth schedule prescribes after capacity c
Grown(c) == IF c = 0 THEN 1 ELSE 2 * c

\* what C9 asks of one call that found capacity c and size n and ended with
\* exception exc and capacity c2
GrowthRule(c, n, exc, c2) ==
  /\ c2 # c => n = c /\ c2 = Grown(c)
  /\ exc = "none" /\ n = c => c2 = Grown(c)

\* C9: PushBack, EmplaceBack, Emplace and Insert change the capacity only
\* when size = capacity before the call, and then to 1 from 0 and to twice
\* the old capacity otherwise; three PushBacks onto an empty Vector give
\* size 3, capacity 4 and the elements in insertion order.
C9_GrowthSchedule ==
  \A i \in Usable :
    LET v == vec[i]
        c == Capacity(v)
        n == Size(v) IN
    /\ \A x \in Args, fault \in Faults :
         LET fuel == FuelOf(fault)
             oom == (fault = Oom) IN
         /\ LET r == EmplaceBack(v, x, "args", fuel, oom)
            IN GrowthRule(c, n, r.exc, Capacity(r.v))
         /\ \A how \in HowsOf(T) \ {"args"} :
              LET r == PushBack(v, x, how, fuel, oom)
              IN GrowthRule(c, n, r.exc, Capacity(r.v))
         /\ \A k \in 0..n :
              /\ LET r == Emplace(v, k, x, "args", fuel, oom)
                 IN GrowthRule(c, n, r.exc, Capacity(r.v))
              /\ \A how \in HowsOf(T) \ {"args"} :
                   LET r == Insert(v, k, x, how, fuel, oom)
                   IN GrowthRule(c, n, r.exc, Capacity(r.v))
    /\ n = 0 /\ c = 0
         => \A a \in Args, b \in Args, d \in Args :
              LET v1 == PushBack(v, a, "move", NoFail, FALSE).v
                  v2 == PushBack(v1, b, "move", NoFail, FALSE).v
                  v3 == PushBack(v2, d, "move", NoFail, FALSE).v IN
              /\ Size(v3) = 3
              /\ Capacity(v3) = 4
              /\ Contents(v3) = <<a, b, d>>

\* a Vector grown to capacity 2 and filled, which the next PushBack takes to
\* capacity 4
C9_Witness ==
  \E i \in Usable :
    /\ Size(vec[i]) = 2 /\ Capacity(vec[i]) = 2
    /\ Capacity(PushBack(vec[i], 1, "move", NoFail, FALSE).v) = 4
    /\ Capacity(Insert(vec[i], 1, 1, "move", NoFail, FALSE).v) = 4

\* C10: Reserve(n) with n <= capacity changes nothing; with n > capacity it
\* sets the capacity to exactly n and keeps the size and the elements in
\* order; a further Reserve(m) with m <= n then has no effect.
C10_ReserveResult ==
  \A i \in Usable, n \in 0..(MaxCap + 1) :
    LET v == vec[i]
        r == Reserve(v, n, NoFail, FALSE) IN
    /\ r.exc = "none"
    /\ IF n <= Capacity(v)
       THEN r.v = v /\ r.cons = 0 /\ r.des = 0
       ELSE /\ Capacity(r.v) = n
            /\ Size(r.v) = Size(v)
            /\ Contents(r.v) = Contents(v)
    /\ \A m \in 0..n :
         LET q == Reserve(r.v, m, NoFail, FALSE) IN
         /\ q.v = r.v
         /\ Capacity(q.v) = IF n > Capacity(v) THEN n ELSE Capacity(v)

\* a Vector holding <<1, 0>> in a buffer of capacity 2, which Reserve(3)
\* moves into a buffer of capacity 3
C10_Witness ==
  \E i \in Usable :
    /\ Contents(vec[i]) = <<1, 0>> /\ Capacity(vec[i]) = 2
    /\ Capacity(Reserve(vec[i], 3, NoFail, FALSE).v) = 3
    /\ Contents(Reserve(vec[i], 3, NoFail, FALSE).v) = <<1, 0>>

\* C11 as stated: EmplaceBack(x) followed by PopBack() leaves the size and
\* the elements as they were and invariant L intact, and an element type that
\* counts sees exactly one construction and one destruction for the pair,
\* whether size < capacity or size = capacity before the call.  At a growth
\* point the relocation constructs and destroys every existing element too.
C11_EmplaceBackPopBackOneEach ==
  \A i \in Usable, x \in Args, how \in HowsOf(T) :
    LET v == vec[i]
        a == EmplaceBack(v, x, how, NoFail, FALSE)
        b == PopBack(a.v) IN
    /\ a.exc = "none" /\ b.exc = "none"
    /\ Size(b.v) = Size(v)
    /\ Contents(b.v) = Contents(v)
    /\ LiveInvariant(b.v)
    /\ T.counted => a.cons + b.cons = 1 /\ a.des + b.des = 1

\* C11 amended: EmplaceBack(x) followed by PopBack() leaves the size and the
\* elements as they were and invariant L intact; the pair performs one
\* construction and one destruction when size < capacity before the call,
\* and 1 + size of each when size = capacity, the relocation constructing
\* and destroying each of the size existing elements once.
C11_EmplaceBackPopBack ==
  \A i \in Usable, x \in Args, how \in HowsOf(T) :
    LET v == vec[i]
        a == EmplaceBack(v, x, how, NoFail, FALSE)
        b == PopBack(a.v)
        moved == IF Size(v) = Capacity(v) THEN Size(v) ELSE 0 IN
    /\ a.exc = "none" /\ b.exc = "none"
    /\ Size(b.v) = Size(v)
    /\ Contents(b.v) = Contents(v)
    /\ LiveInvariant(b.v)
    /\ a.cons + b.cons = 1 + moved
    /\ a.des + b.des = 1 + moved

\* a counting element type in a full Vector of two elements, on which the
\* pair of calls relocates both, next to one with a spare cell
C11_Witness ==
  /\ T.counted
  /\ \E i \in Usable :
       /\ Size(vec[i]) = 2 /\ Capacity(vec[i]) = 2
       /\ EmplaceBack(vec[i], 1, "args", NoFail, FALSE).cons = 3
       /\ Size(PopBack(EmplaceBack(vec[i], 1, "args", NoFail, FALSE).v).v) = 2
  /\ \E j \in Usable :
       /\ Size(vec[j]) < Capacity(vec[j])
       /\ EmplaceBack(vec[j], 1, "args", NoFail, FALSE).cons = 1

\* the block the call found in data_ and the block it allocated, wherever
\* the swap has put them
Swapped == call.pc \in {"free", "increment", "done"}

OldBuffer == IF Swapped THEN call.new_data.buffer_ ELSE vec[1].data_.buffer_

NewBuffer == IF Swapped THEN vec[1].data_.buffer_ ELSE call.new_data.buffer_

\* what the call does as a whole, by the member function's definition
WholeCall ==
  IF call.fn = "EmplaceBack"
  THEN EmplaceBack(call.before, call.value, call.how, FuelOf(call.fault),
                   call.fault = Oom)
  ELSE Emplace(call.before, call.offset, call.value, call.how,
               FuelOf(call.fault), call.fault = Oom)

\* C12: on the reallocating path of EmplaceBack and Emplace the new block is
\* allocated, then the new element is built at its final offset in it, then
\* the existing cells are relocated, then the originals are destroyed, then
\* the blocks are swapped and the old block is freed: no original cell is
\* moved from, copied from or destroyed before the new element's constructor
\* has succeeded, none is destroyed before every destination cell is built,
\* the old block is swapped out and freed with every cell raw, and the
\* statements together leave what the call as a whole leaves.
C12_StepOrdering ==
  LET n == call.before.size_
      old == OldBuffer
      new == NewBuffer IN
  /\ call.built => Len(new) = NewCapacity(n) \/ call.pc = "thrown"
  /\ call.built /\ call.pc # "thrown" => new[call.offset + 1] = call.value
  /\ ~call.built =>
       /\ call.k = 0 /\ call.cons = 0 /\ call.des = 0
       /\ vec[1] = call.before
       /\ \A j \in 1..Len(new) : new[j] = Raw
  /\ (\E j \in 1..Len(old) : old[j] = Raw) =>
       /\ call.built /\ call.k = n
       /\ \A j \in 1..(n + 1) : new[j] # Raw
  /\ call.pc \in {"swap", "free"} => Len(old) = n
  /\ Swapped => \A j \in 1..Len(old) : old[j] = Raw
  /\ call.pc \in {"increment", "done"} => call.freed = 0 /\ Len(old) = 0
  /\ call.pc \in {"done", "thrown", "aborted"} =>
       LET r == WholeCall IN
       /\ vec[1] = r.v
       /\ call.exc = r.exc
       /\ call.cons = r.cons /\ call.des = r.des
       /\ call.freed = r.freed

\* an Emplace into the middle of a full Vector of two elements of a type
\* whose relocation copies, at the point where the originals have just been
\* destroyed and the blocks are about to be swapped
C12_Witness ==
  /\ call.pc = "swap"
  /\ call.fn = "Emplace" /\ call.offset = 1
  /\ ~Moving
  /\ call.before.size_ = 2
  /\ vec[1].data_.buffer_ = <<Raw, Raw>>
  /\ call.new_data.buffer_ =
       <<call.before.data_.buffer_[1], call.value,
         call.before.data_.buffer_[2], Raw>>

\* C13: for an element type that is copy-constructible and whose move may
\* throw, relocation copies; when one of its copies fails during Reserve,
\* during the Reserve of a growing Resize, or during the growth of
\* EmplaceBack or Emplace, the call ends with the element's exception and
\* the Vector has the capacity, size and element values it had before.
C13_FailingRelocation ==
  T.copy_constructible /\ ~T.nothrow_move =>
    \A i \in Usable, fuel \in 0..MaxFail :
      LET v == vec[i]
          n == Size(v) IN
      /\ \A m \in (Capacity(v) + 1)..(MaxCap + 1) :
           LET r == Reserve(v, m, fuel, FALSE)
               z == Resize(v, m, fuel, FALSE) IN
           /\ r.exc = "element" <=> fuel < n
           /\ r.exc = "element" => r.v = v
           /\ fuel < n => z.exc = "element" /\ z.v = v
      /\ n = Capacity(v) /\ 1 <= fuel /\ fuel <= n =>
           \A x \in Args, how \in HowsOf(T) :
             /\ LET r == EmplaceBack(v, x, how, fuel, FALSE) IN
                r.exc = "element" /\ r.v = v
             /\ \A k \in 0..n :
                  LET r == Emplace(v, k, x, how, fuel, FALSE) IN
                  r.exc = "element" /\ r.v = v

\* a full Vector of two elements of such a type, the first not Empty, on
\* which the second copy of a Reserve and of a growing Emplace fails
C13_Witness ==
  /\ T.copy_constructible /\ ~T.nothrow_move
  /\ \E i \in Usable :
       /\ Size(vec[i]) = 2 /\ Capacity(vec[i]) = 2
       /\ Contents(vec[i])[1] # Empty
       /\ Reserve(vec[i], 3, 1, FALSE).exc = "element"
       /\ Resize(vec[i], 3, 1, FALSE).exc = "element"
       /\ EmplaceBack(vec[i], 1, "copy", 2, FALSE).exc = "element"
       /\ Emplace(vec[i], 1, 1, "args", 2, FALSE).exc = "element"

\* C14: whenever a block is handed back to the allocator (the old block
\* after a relocation, a new block abandoned because a construction or a
\* relocation step threw, the block of a Vector being destroyed), every
\* cell of it is raw.  Emplace's handler destroys only the new element, so a
\* copy that throws in the tail leaves the copied head in the abandoned
\* block; a throwing move leaves the new element there.
C14_NoLiveCellFreed ==
  \A i \in Usable :
    LET v == vec[i] IN
    /\ VectorDestroy(v).freed = 0
    /\ \A fault \in Faults :
         LET fuel == FuelOf(fault)
             oom == (fault = Oom) IN
         /\ \A m \in 0..(MaxCap + 1) :
              /\ Reserve(v, m, fuel, oom).freed = 0
              /\ Resize(v, m, fuel, oom).freed = 0
              /\ VectorSized(m, fuel, oom).freed = 0
         /\ T.copy_constructible =>
              /\ VectorCopy(v, fuel, oom).freed = 0
              /\ \A j \in Usable :
                   CopyAssign(v, vec[j], i = j, fuel, oom).freed = 0
         /\ \A x \in Args, how \in HowsOf(T) :
              /\ EmplaceBack(v, x, how, fuel, oom).freed = 0
              /\ \A k \in 0..Size(v) :
                   Emplace(v, k, x, how, fuel, oom).freed = 0

\* C15: after a successful A = B with A and B distinct Vectors, A has B's
\* size and element values; A's capacity is unchanged when B.size <=
\* A.capacity and is B.size otherwise; when B.size < A.size exactly the
\* A.size - B.size trailing objects of A are destroyed and nothing is
\* constructed.  A = A changes nothing.
C15_CopyAssignResult ==
  T.copy_constructible =>
    \A i \in Usable, j \in Usable :
      LET a == vec[i]
          b == vec[j]
          r == CopyAssign(a, b, i = j, NoFail, FALSE) IN
      /\ r.exc = "none"
      /\ IF i = j
         THEN r.v = a /\ r.cons = 0 /\ r.des = 0
         ELSE /\ Size(r.v) = Size(b)
              /\ Contents(r.v) = Contents(b)
              /\ LiveInvariant(r.v)
              /\ Capacity(r.v) =
                   IF Size(b) <= Capacity(a) THEN Capacity(a) ELSE Size(b)
              /\ Size(b) <= Capacity(a) =>
                   r.cons = (IF Size(b) > Size(a) THEN Size(b) - Size(a) ELSE 0)
              /\ Size(b) < Size(a) =>
                   /\ r.des = Size(a) - Size(b)
                   /\ \A c \in (Size(b) + 1)..Size(a) :
                        r.v.data_.buffer_[c] = Raw

\* two Vectors of a copyable type, A of two elements and B of one other
\* element in a block of one cell: A = B shrinks A in place and destroys one
\* object, B = A replaces B's block
C15_Witness ==
  /\ T.copy_constructible
  /\ \E i \in Usable, j \in Usable :
       /\ Size(vec[i]) = 2 /\ Capacity(vec[i]) = 2
       /\ Size(vec[j]) = 1 /\ Capacity(vec[j]) = 1
       /\ Contents(vec[j])[1] # Contents(vec[i])[1]
       /\ CopyAssign(vec[i], vec[j], FALSE, NoFail, FALSE).des = 1
       /\ Capacity(CopyAssign(vec[i], vec[j], FALSE, NoFail, FALSE).v) = 2
       /\ Capacity(CopyAssign(vec[j], vec[i], FALSE, NoFail, FALSE).v) = 2

\* C16: when the k-th element construction throws during Vector(const
\* Vector&) or Vector(size_t), the k - 1 objects already built in the new
\* block are destroyed, the block is deallocated with every cell raw, the
\* exception leaves the constructor and no Vector comes to exist; the
\* failed construction has then constructed as many objects as it has
\* destroyed, and destroying the source destroys its size objects.
C16_FailingConstruction ==
  T.throws =>
    \A fuel \in 0..MaxFail :
      /\ \A n \in 0..(MaxCap + 1) :
           LET r == VectorSized(n, fuel, FALSE) IN
           /\ r.exc = "element" <=> fuel < n
           /\ fuel < n =>
                /\ r.v = NoVector
                /\ r.cons = fuel /\ r.des = fuel
                /\ r.freed = 0
      /\ T.copy_constructible =>
           \A i \in Usable :
             LET a == vec[i]
                 r == VectorCopy(a, fuel, FALSE)
                 d == VectorDestroy(a) IN
             /\ r.exc = "element" <=> fuel < Size(a)
             /\ fuel < Size(a) =>
                  /\ r.v = NoVector
                  /\ r.cons = fuel /\ r.des = fuel
                  /\ r.freed = 0
                  /\ d.des = Size(a) /\ d.freed = 0
                  /\ r.cons + Size(a) = r.des + d.des

\* a Vector of two elements of a copyable type whose copy constructor
\* throws, copied by a constructor whose second copy fails
C16_Witness ==
  /\ T.throws /\ T.copy_constructible
  /\ \E i \in Usable :
       /\ Size(vec[i]) = 2
       /\ VectorCopy(vec[i], 1, FALSE).exc = "element"
       /\ VectorCopy(vec[i], 1, FALSE).cons = 1
       /\ VectorSized(2, 1, FALSE).exc = "element"

\* C17: operator[] with index >= size, for reading and for writing, and
\* Erase(end()), on an empty Vector too, terminate the process: they never
\* return and never leave a changed Vector.  Erase has no assertion; with
\* pos == end() it can return after destroying the last element.
C17_PreconditionsAbort ==
  \A i \in Usable :
    LET v == vec[i] IN
    /\ \A index \in Size(v)..(MaxCap + 1) :
         At(v, index).exc = "abort" /\ At(v, index).v = v
    /\ \A fuel \in Fuels :
         \A r \in EraseOutcomes(v, Size(v), fuel) :
           r.exc = "abort" /\ r.v = v

\* C18: the move constructor and move assignment hand blocks over and touch
\* no element.  After Vector(Vector&& other) the new Vector holds the block,
\* capacity and size other had, cell for cell, and other is an empty Vector
\* of size 0 without a block; after a move assignment from a distinct rhs
\* the two Vectors have exchanged block, capacity and size; a move
\* assignment from itself changes nothing.  Neither ends in an exception.
C18_MoveTransfersOwnership ==
  \A j \in Usable :
    LET o == vec[j]
        p == VectorMove(o) IN
    /\ p[1].alive /\ p[2].alive
    /\ p[1].data_ = o.data_ /\ p[1].size_ = o.size_
    /\ p[2].data_ = NullMemory /\ p[2].size_ = 0
    /\ \A i \in Usable :
         LET v == vec[i]
             q == MoveAssign(v, o, i = j) IN
         IF i = j
         THEN q[1] = v /\ q[2] = v
         ELSE /\ q[1].data_ = o.data_ /\ q[1].size_ = o.size_
              /\ q[2].data_ = v.data_ /\ q[2].size_ = v.size_
              /\ q[1].alive /\ q[2].alive

\* two Vectors of a type whose move empties its source, one holding
\* <<1, 1>> and one empty with a block of one cell, which a move assignment
\* exchanges and a move construction hands over with the values in place
C18_Witness ==
  /\ ~T.move_keeps
  /\ \E i \in Usable, j \in Usable :
       /\ Contents(vec[i]) = <<1, 1>>
       /\ Size(vec[j]) = 0 /\ Capacity(vec[j]) = 1
       /\ Contents(MoveAssign(vec[j], vec[i], FALSE)[1]) = <<1, 1>>
       /\ Capacity(MoveAssign(vec[j], vec[i], FALSE)[2]) = 1
       /\ Contents(VectorMove(vec[i])[1]) = <<1, 1>>

\* C19: at a growth point where size_ * size_factor does not fit in size_t,
\* EmplaceBack / PushBack and Emplace / Insert end with bad_alloc and leave
\* the Vector as it was.  The code does not check: the product wraps, a
\* block of the wrapped capacity is asked for, and the call runs into the
\* assertion of RawMemory::operator+ or writes outside the block.
C19_OverflowIsAllocationFailure ==
  \A i \in Usable :
    LET v == vec[i] IN
    Size(v) = Capacity(v) /\ Size(v) * size_factor >= SizeRange =>
      \A x \in Args, how \in HowsOf(T), fuel \in Fuels :
        /\ LET r == EmplaceBack(v, x, how, fuel, FALSE) IN
           r.exc = "bad_alloc" /\ r.v = v
        /\ \A k \in 0..Size(v) :
             LET r == Emplace(v, k, x, how, fuel, FALSE) IN
             r.exc = "bad_alloc" /\ r.v = v

\* C20: when the argument of PushBack / EmplaceBack or of Insert / Emplace
\* is a reference to the live element v[index] of the Vector itself, the
\* element inserted has the value v[index] had at the call, on the in-place
\* and on the reallocating path.  The in-place path of Emplace shifts and
\* destroys before it reads the argument.
C20_ArgumentAliasesElement ==
  \A i \in Usable :
    LET v == vec[i]
        n == Size(v) IN
    \A index \in 0..(n - 1), how \in HowsOf(T) \ {"args"} :
      /\ LET r == EmplaceBackOfElement(v, index, how, NoFail, FALSE) IN
         r.exc = "none" /\ r.v.data_.buffer_[n + 1] = Contents(v)[index + 1]
      /\ \A k \in 0..n :
           \A r \in EmplaceOfElementOutcomes(v, k, index, how, NoFail, FALSE) :
             r.exc = "none" /\ r.v.data_.buffer_[k + 1] = Contents(v)[index + 1]

====
